---- MODULE Spec2Model ----
(***************************************************************************)
(* Kernel client of phosphor-notebook: the websocket connection manager    *)
(* (start_channels / stop_channels / reconnect with backoff), the table    *)
(* of open shell requests, the incoming message dispatch and the comm      *)
(* manager, modelled from src/src/kernel.ts and src/src/comm.ts, and the   *)
(* wire codec (serialize / deserialize) of src/src/utils.ts.               *)
(*                                                                         *)
(* The kernel object is one record k; every method of the class is an      *)
(* operator from the record before the call to the record after it, so a   *)
(* handler that calls other methods is the composition of their            *)
(* operators.  An action is one task of the event loop: a public call, a   *)
(* websocket event, a timer, an ajax completion or a promise continuation. *)
(***************************************************************************)
EXTENDS Integers, Sequences, FiniteSets, TLC

\* ------------------------------------------------------------------ bounds
MaxSockets == 8        \* websockets created in one behaviour
MaxExternal == 2       \* public start_channels/stop_channels/reconnect calls
MaxExtSockets == 2     \* websockets created when public calls interleave
MaxMsgs == 1           \* shell requests issued by callers (uuids drawn)
MaxIncoming == 3       \* messages the transport delivers in one behaviour
MaxQueued == 2         \* message jobs chained and not yet run
MaxChains == 2         \* comm promises registered in one behaviour
MaxCommIn == 4         \* comm messages handled in one behaviour
MaxBufs == 2           \* buffers attached to one message
MaxBufLen == 1         \* bytes in one ArrayBuffer
MaxInputs == 2         \* input replies the caller sends

\* ------------------------------------------------------- program constants
reconnect_limit == 7

Sockets == 1 .. MaxSockets
MsgIds == 1 .. (MaxMsgs + MaxSockets)
\* a msg_id no request of this client carries (another client's request)
Foreign == MaxMsgs + MaxSockets + 1
\* one comm id: every handler of the manager reads and writes only the
\* entry of the comm_id its message carries, so ids do not interact
CommIds == {1}
Chains == 1 .. MaxChains

RECURSIVE Pow2(_)
Pow2(n) == IF n = 0 THEN 1 ELSE 2 * Pow2(n - 1)

VARIABLES
  ws,                  \* this.ws: 0 is null, otherwise the socket held
  sock,                \* the WebSocket objects made: readyState and onclose
  nsock,               \* sockets constructed so far
  called,              \* already_called_onclose of each start_channels call
  timers,              \* pending setTimeout callbacks, in creation order
  probes,              \* get_info requests in flight, by owning closure
  reconnect_attempt,   \* this._reconnect_attempt
  autorestart_attempt, \* this._autorestart_attempt
  msg_queue,           \* this._msg_queue: settled state and chained jobs
  msg_callbacks,       \* callbacks objects created by set_callbacks_for_msg
  inTable,             \* ids that are keys of this._msg_callbacks
  last_msg_id,         \* this.last_msg_id (0 is null)
  lastHasCb,           \* last_msg_callbacks is the object of last_msg_id
  nextId,              \* next uuid
  wire,                \* messages written with ws.send: id -> type
  emitted,             \* events triggered by the last task, in order
  threw,               \* the last task ended in an uncaught exception
  rejected,            \* the last task ended in a rejected promise
  ncalls,              \* public connection calls made so far
  cm,                  \* the comm manager: _comms and the promises in it
  codec,               \* a message, its wire form and the message read back
  exec_call,           \* the arguments of an execute call and its content
  hist                 \* history of the behaviour, for the properties

vars == << ws, sock, nsock, called, timers, probes, reconnect_attempt,
           autorestart_attempt, msg_queue, msg_callbacks, inTable, last_msg_id, lastHasCb, nextId, wire,
           emitted, threw, rejected, ncalls, cm, codec, exec_call, hist >>

NoMsg == [channel |-> "none", msg_type |-> "none", parent |-> 0,
          state |-> "none", comm_id |-> 0]
NoChain == [state |-> "none", id |-> 0, conts |-> <<>>]
NoCb == [hasShell |-> FALSE, reply |-> "none", hasIopub |-> FALSE,
         output |-> "none", clear_output |-> "none", input |-> "none",
         status |-> "none",
         shell_done |-> FALSE, iopub_done |-> FALSE]

\* The kernel object and its environment as one record.
K == [ ws |-> ws, sock |-> sock, nsock |-> nsock, called |-> called,
       timers |-> timers, probes |-> probes,
       reconnect_attempt |-> reconnect_attempt,
       autorestart_attempt |-> autorestart_attempt,
       msg_queue |-> msg_queue,
       msg_callbacks |-> msg_callbacks, inTable |-> inTable,
       last_msg_id |-> last_msg_id, lastHasCb |-> lastHasCb,
       nextId |-> nextId, wire |-> wire,
       emitted |-> <<>>, threw |-> FALSE, rejected |-> FALSE,
       ncalls |-> ncalls, cm |-> cm, hist |-> hist ]

\* A closed socket fires no further event, and a closure of start_channels
\* that no live socket, timer or probe refers to is garbage: their fields
\* are dropped so that states differing in dead data only are one state.
Live(r, o) ==
  \/ r.sock[o].readyState \in {"CONNECTING", "OPEN", "CLOSING"}
  \/ \E s \in DOMAIN r.sock : /\ r.sock[s].owner = o
                               /\ r.sock[s].readyState # "CLOSED"
  \/ \E i \in 1 .. Len(r.timers) : r.timers[i].owner = o
  \/ o \in r.probes

Collect(r) ==
  [r EXCEPT
     !.sock = [s \in DOMAIN r.sock |->
                 IF r.sock[s].readyState = "CLOSED"
                 THEN [r.sock[s] EXCEPT !.kind = "none", !.owner = 0]
                 ELSE r.sock[s]],
     !.called = [o \in DOMAIN r.called |->
                   IF Live(r, o) THEN r.called[o] ELSE TRUE]]

\* the task's result is computed once and becomes the next state
Commit(r0) ==
  \E r \in {Collect(r0)} :
  /\ ws' = r.ws
  /\ sock' = r.sock
  /\ nsock' = r.nsock
  /\ called' = r.called
  /\ timers' = r.timers
  /\ probes' = r.probes
  /\ reconnect_attempt' = r.reconnect_attempt
  /\ autorestart_attempt' = r.autorestart_attempt
  /\ msg_queue' = r.msg_queue
  /\ msg_callbacks' = r.msg_callbacks
  /\ inTable' = r.inTable
  /\ last_msg_id' = r.last_msg_id
  /\ lastHasCb' = r.lastHasCb
  /\ nextId' = r.nextId
  /\ wire' = r.wire
  /\ emitted' = r.emitted
  /\ threw' = r.threw
  /\ rejected' = r.rejected
  /\ ncalls' = r.ncalls
  /\ cm' = r.cm
  /\ hist' = r.hist
  /\ codec' = codec
  /\ exec_call' = exec_call

\* ------------------------------------------------------------ kernel.ts
\* events.trigger, with the two handlers bind_events attaches
\* events.trigger with no handler attached to the event
trigger_unbound(k, e) ==
  [k EXCEPT !.emitted = Append(@, e),
            !.hist.fresh = @ \/ e = "connected"]

trigger(k, e) ==
  LET k1 == [k EXCEPT !.emitted = Append(@, e)]
  IN  IF e = "connected"
      THEN [k1 EXCEPT !.reconnect_attempt = 0, !.hist.fresh = TRUE]
      ELSE IF e = "ready"
           THEN [k1 EXCEPT !.autorestart_attempt = 0, !.hist.nrestart = 0]
      ELSE IF e = "connection_dead"
           THEN [k1 EXCEPT !.hist.connDead = IF @ < 2 THEN @ + 1 ELSE @]
           ELSE k1

is_connected(k) ==
  IF k.ws = 0 THEN FALSE
  ELSE IF k.sock[k.ws].readyState # "OPEN" THEN FALSE
  ELSE TRUE

is_fully_disconnected(k) == k.ws = 0

\* stop_channels dropping the reference whatever the socket's state
close_unchecked(k) ==
  IF k.ws # 0 THEN [k EXCEPT !.ws = 0] ELSE k

\* the closure `close` of stop_channels
close(k) ==
  IF k.ws # 0 /\ k.sock[k.ws].readyState = "CLOSED"
  THEN [k EXCEPT !.ws = 0]
  ELSE k

stop_channels(k) ==
  IF k.ws # 0
  THEN IF k.sock[k.ws].readyState = "OPEN"
       THEN [k EXCEPT !.sock[k.ws].kind = "close",
                      !.sock[k.ws].readyState = "CLOSING"]
       ELSE close(k)
  ELSE k

set_callbacks_for_msg(k, msg_id, hasCallbacks, cbs) ==
  LET k1 == [k EXCEPT !.last_msg_id = msg_id]
  IN  IF hasCallbacks
      THEN [k1 EXCEPT
              !.msg_callbacks[msg_id] =
                 [cbs EXCEPT !.shell_done = ~cbs.hasShell,
                             !.iopub_done = ~cbs.hasIopub],
              !.inTable = @ \cup {msg_id},
              !.lastHasCb = TRUE]
      ELSE [k1 EXCEPT !.lastHasCb = FALSE]

\* a send that does not ask is_connected first
send_shell_message_unchecked(k, msg_type, hasCallbacks, cbs) ==
  LET id == k.nextId
      k1 == [k EXCEPT !.nextId = id + 1,
                      !.msg_callbacks = Append(@, NoCb),
                      !.wire = Append(@, [type |-> msg_type, sock |-> k.ws,
                                          channel |-> "shell"])]
  IN  set_callbacks_for_msg(k1, id, hasCallbacks, cbs)

send_shell_message(k, msg_type, hasCallbacks, cbs) ==
  IF ~is_connected(k)
  THEN [k EXCEPT !.threw = TRUE]
  ELSE LET id == k.nextId
           k1 == [k EXCEPT !.nextId = id + 1,
                           !.msg_callbacks = Append(@, NoCb),
                           !.wire = Append(@, [type |-> msg_type,
                                               sock |-> k.ws,
                                               channel |-> "shell"])]
       IN  set_callbacks_for_msg(k1, id, hasCallbacks, cbs)

kernel_info(k, hasCallback, cb) ==
  send_shell_message(k, "kernel_info_request", hasCallback,
                     [NoCb EXCEPT !.hasShell = TRUE, !.reply = cb])

_kernel_connected(k) ==
  kernel_info(trigger(k, "connected"), TRUE, "ready")

\* a step of the running task, with the number of events triggered before it
Mark(kind, k, error) == [kind |-> kind, at |-> Len(k.emitted), error |-> error]

_kernel_dead(k) == stop_channels([k EXCEPT !.hist.killed = TRUE])

\* kill: the event, _kernel_dead, and a DELETE request whose answer changes
\* nothing in the client
kill(k) == _kernel_dead(trigger(k, "killed"))

start_channels(k) ==
  LET k1 == stop_channels(k)
      s == k1.nsock + 1
  IN  [k1 EXCEPT !.nsock = s,
                 !.ws = s,
                 !.hist.held = s,
                 !.sock = Append(@, [readyState |-> "CONNECTING",
                                     kind |-> "early", owner |-> s]),
                 !.called = Append(@, FALSE),
                 !.timers = Append(@, [kind |-> "switch", owner |-> s,
                                       rem |-> 1])]

_ws_opened(k) ==
  IF is_connected(k) THEN _kernel_connected(k) ELSE k

_schedule_reconnect(k) ==
  IF k.reconnect_attempt < reconnect_limit
  THEN [k EXCEPT !.timers = Append(@, [kind |-> "reconnect", owner |-> 0,
                                       rem |-> Pow2(k.reconnect_attempt)]),
                 !.hist.sched = Pow2(k.reconnect_attempt),
                 !.hist.fresh = FALSE,
                 !.hist.marks = Append(@, Mark("timer", k, FALSE))]
  ELSE trigger(k, "connection_dead")

\* _ws_closed setting the reconnect timer before it reports the disconnect
_ws_closed_schedule_first(k, error) ==
  LET k0 == [k EXCEPT !.hist.marks = Append(@, Mark("ws_closed", k, error))]
      k1 == _schedule_reconnect(stop_channels(k0))
      k2 == trigger(k1, "disconnected")
  IN  IF error THEN trigger(k2, "connection_failed") ELSE k2

_ws_closed(k, error) ==
  LET k0 == [k EXCEPT !.hist.marks = Append(@, Mark("ws_closed", k, error))]
      k1 == trigger(stop_channels(k0), "disconnected")
      k2 == IF error THEN trigger(k1, "connection_failed") ELSE k1
  IN  _schedule_reconnect(k2)

reconnect(k) ==
  IF is_connected(k) THEN k
  ELSE start_channels(
         trigger([k EXCEPT !.reconnect_attempt = @ + 1], "reconnecting"))

\* The two callbacks start_channels passes to get_info are plain
\* `function() { this... }` expressions; _on_success and _on_error call them
\* as `success(...)` / `error(...)`, so `this` is not the kernel and the
\* first property access on it throws a TypeError.
get_info_success(k) == [k EXCEPT !.threw = TRUE]

get_info_error(k) == [k EXCEPT !.threw = TRUE]

\* get_info: the ajax request is in flight until ProbeSuccess / ProbeError
get_info(k, o) == [k EXCEPT !.probes = @ \cup {o}, !.hist.probed = TRUE]

\* the three closures of one start_channels call; o is the call's socket
ws_closed_early(k, o, wasClean) ==
  IF k.called[o] THEN k
  ELSE LET k1 == [k EXCEPT !.called[o] = TRUE, !.hist.neff = @ + 1]
       IN  IF ~wasClean THEN get_info(k1, o) ELSE k1

\* a close handler that does not look at evt.wasClean
ws_closed_late_unclean(k, o, wasClean) ==
  IF k.called[o] THEN k
  ELSE _ws_closed([k EXCEPT !.called[o] = TRUE, !.hist.neff = @ + 1], FALSE)

ws_closed_late(k, o, wasClean) ==
  IF k.called[o] THEN k
  ELSE LET k1 == [k EXCEPT !.called[o] = TRUE, !.hist.neff = @ + 1]
       IN  IF ~wasClean THEN _ws_closed(k1, FALSE) ELSE k1

\* an error handler that does not consult already_called_onclose
ws_error_unguarded(k, o) ==
  _ws_closed([k EXCEPT !.hist.neff = @ + 1], TRUE)

ws_error(k, o) ==
  IF k.called[o] THEN k
  ELSE _ws_closed([k EXCEPT !.called[o] = TRUE, !.hist.neff = @ + 1], TRUE)

\* the setTimeout callback of start_channels, closed over ws_closed_late of
\* the call that created socket o; it patches whatever this.ws is now
switch_handler(k, o) ==
  IF k.ws # 0
  THEN [k EXCEPT !.sock[k.ws].kind = "late", !.sock[k.ws].owner = o]
  ELSE k

\* the close event of socket s runs the handler s.onclose holds
onclose(k, s, wasClean) ==
  LET h == k.sock[s]
  IN  IF h.kind = "close" THEN close(k)
      ELSE IF h.kind = "early" THEN ws_closed_early(k, h.owner, wasClean)
      ELSE ws_closed_late(k, h.owner, wasClean)

\* ------------------------------------------- request table and dispatch
\* the value get_callbacks_for_msg returns: def is false for undefined; the
\* object last_msg_callbacks is the table's object of last_msg_id when
\* set_callbacks_for_msg was given callbacks and a fresh {} otherwise.
\* `msg_id == this.last_msg_id` is a loose comparison: a missing msg_id (0)
\* equals the initial null.
\* a lookup in the table alone, without the last message's callbacks
get_callbacks_for_msg_table(k, msg_id) ==
  IF msg_id \in k.inTable
  THEN [def |-> TRUE, cb |-> k.msg_callbacks[msg_id]]
  ELSE [def |-> FALSE, cb |-> NoCb]

get_callbacks_for_msg(k, msg_id) ==
  IF msg_id = k.last_msg_id
  THEN [def |-> TRUE,
        cb |-> IF k.lastHasCb THEN k.msg_callbacks[msg_id] ELSE NoCb]
  ELSE IF msg_id \in k.inTable
       THEN [def |-> TRUE, cb |-> k.msg_callbacks[msg_id]]
       ELSE [def |-> FALSE, cb |-> NoCb]

clear_callbacks_for_msg(k, msg_id) ==
  IF msg_id \in k.inTable
  THEN [k EXCEPT !.inTable = @ \ {msg_id},
                 !.hist.done = Append(@, msg_id)]
  ELSE k

_finish_shell(k, msg_id) ==
  IF msg_id \in k.inTable
  THEN LET k1 == [k EXCEPT !.msg_callbacks[msg_id].shell_done = TRUE]
       IN  IF k1.msg_callbacks[msg_id].iopub_done
           THEN clear_callbacks_for_msg(k1, msg_id)
           ELSE k1
  ELSE k

_finish_iopub(k, msg_id) ==
  IF msg_id \in k.inTable
  THEN LET k1 == [k EXCEPT !.msg_callbacks[msg_id].iopub_done = TRUE]
       IN  IF k1.msg_callbacks[msg_id].shell_done
           THEN clear_callbacks_for_msg(k1, msg_id)
           ELSE k1
  ELSE k

\* a caller-supplied callback called synchronously: "ok" returns, "throw"
\* throws, and the exception leaves the calling handler unless it catches
call(k, cb) ==
  IF cb = "throw" THEN [k EXCEPT !.threw = TRUE, !.hist.invoked = TRUE]
  ELSE IF cb = "ok" THEN [k EXCEPT !.hist.invoked = TRUE]
  ELSE k

\* the reply callback runs in a continuation of the promise that
\* _handle_shell_reply returns: its exception rejects that promise
call_reply(k, cb) ==
  IF cb = "ready" THEN trigger([k EXCEPT !.hist.invoked = TRUE], "ready")
  ELSE IF cb = "throw"
       THEN [k EXCEPT !.rejected = TRUE, !.hist.invoked = TRUE]
  ELSE call(k, cb)

_handle_shell_reply(k, reply) ==
  LET k1 == trigger(k, "shell_reply")
      callbacks == get_callbacks_for_msg(k1, reply.parent)
  IN  IF ~callbacks.def \/ ~callbacks.cb.hasShell
      THEN k1
      ELSE LET k2 == call_reply(_finish_shell(k1, reply.parent),
                                callbacks.cb.reply)
           IN  IF k2.hist.invoked
               THEN [k2 EXCEPT !.hist.replied = @ \cup {reply.parent}]
               ELSE k2

\* callbacks.iopub.status is called inside try/catch: an exception of the
\* callback is logged and goes no further
status_callback(k, msg) ==
  LET callbacks == get_callbacks_for_msg(k, msg.parent)
  IN  IF callbacks.def /\ callbacks.cb.hasIopub
         /\ callbacks.cb.status # "none"
      THEN [k EXCEPT !.hist.invoked = TRUE]
      ELSE k

_handle_status_message(k, msg) ==
  LET k0 == status_callback(k, msg)
  IN  IF msg.state = "busy" THEN trigger(k0, "busy")
      ELSE IF msg.state = "idle"
           THEN trigger(_finish_iopub(k0, msg.parent), "idle")
      ELSE IF msg.state = "starting"
           THEN kernel_info(trigger(k0, "starting"), TRUE, "ready")
      ELSE IF msg.state = "restarting"
           THEN LET k1 == [k0 EXCEPT !.autorestart_attempt = @ + 1]
                    k2 == trigger(k1, "restarting")
                IN  trigger([k2 EXCEPT !.hist.attempt =
                                          k2.autorestart_attempt],
                            "autorestarting")
      ELSE IF msg.state = "dead"
           THEN _kernel_dead(
                  trigger([k0 EXCEPT !.hist.dead = IF is_connected(k0)
                                                   THEN k0.ws ELSE @],
                          "dead"))
      ELSE k0

_handle_clear_output(k, msg) ==
  LET callbacks == get_callbacks_for_msg(k, msg.parent)
  IN  IF ~callbacks.def \/ ~callbacks.cb.hasIopub
      THEN k
      ELSE call(k, callbacks.cb.clear_output)

_handle_output_message(k, msg) ==
  LET callbacks == get_callbacks_for_msg(k, msg.parent)
  IN  IF ~callbacks.def \/ ~callbacks.cb.hasIopub
      THEN trigger(k, "received_unsolicited_message")
      ELSE call(k, callbacks.cb.output)

_handle_input_message(k, msg) ==
  LET callbacks == get_callbacks_for_msg(k, msg.parent)
  IN  IF ~callbacks.def
      THEN trigger(k, "received_unsolicited_message")
      ELSE k

\* the promise the handler made by utils.reject(message, true) returns
reject == "rejected"

\* -------------------------------------------------------------- comm.ts
\* comm.ts calls the kernel's sendShellMessage and registerIOPubHandler;
\* kernel.ts spells them send_shell_message and register_iopub_handler.
\* A promise of _comms is a chain: its state, the comm id of the Comm it
\* resolves to, and the continuations chained on it, oldest first.
registerComm(k, id) ==
  LET c == k.cm.nchain + 1
  IN  [k EXCEPT !.cm.nchain = c,
                !.cm.chain[c] = [state |-> "resolved", id |-> id,
                                 conts |-> <<>>],
                !.cm.comms[id] = c,
                !.cm.nopen[id] = @ + 1]

unregisterComm(k, id) == [k EXCEPT !.cm.comms[id] = 0]

\* Comm.open and Comm.close: one shell message each; content holds the
\* comm_id and the target_name of the Comm that open() is called on
Comm_open(k, target_name, id) ==
  LET k1 == send_shell_message(k, "comm_open", FALSE, NoCb)
  IN  IF k1.threw THEN k1
      ELSE [k1 EXCEPT !.cm.content =
                         Append(@, [msg_id |-> k.nextId, comm_id |-> id,
                                    target_name |-> target_name])]

\* a comm_open that is sent before the comm is in the registry and carries
\* no comm id
newComm_anonymous(k, target_name, id) ==
  LET k1 == Comm_open([k EXCEPT !.cm.local = @ \cup {id}], target_name, 0)
  IN  IF k1.threw THEN k1 ELSE registerComm(k1, id)

Comm_close(k) == send_shell_message(k, "comm_close", FALSE, NoCb)

newComm(k, target_name, id) ==
  Comm_open(registerComm([k EXCEPT !.cm.local = @ \cup {id}], id),
            target_name, id)

\* Comm._callback: the callback runs inside try/catch, so whether it
\* returns or throws the only trace is that it was called
_callback(k, c, kind, n) ==
  [k EXCEPT !.cm.log = Append(@, [id |-> k.cm.chain[c].id, chain |-> c,
                                  kind |-> kind, n |-> n])]

handleMsg(k, c, n) == _callback(k, c, "msg", n)

handleClose(k, c, n) == _callback(k, c, "close", n)

\* a continuation chained with .then on a rejected promise never runs
then(k, c, kind) ==
  LET n == Len(k.cm.arr) + 1
      k1 == [k EXCEPT !.cm.arr = Append(@, [id |-> k.cm.chain[c].id,
                                            kind |-> kind, chain |-> c])]
  IN  IF k.cm.chain[c].state = reject
      THEN k1
      ELSE [k1 EXCEPT !.cm.chain[c].conts =
                         Append(@, [kind |-> kind, n |-> n])]

\* a message for an unknown comm id handed to a comm callback all the same
not_found_delivering(k, id, kind) ==
  [k EXCEPT !.cm.arr = Append(@, [id |-> id, kind |-> kind, chain |-> 0]),
            !.cm.log = Append(@, [id |-> id, chain |-> 0, kind |-> kind,
                                  n |-> Len(k.cm.arr) + 1])]

\* console.error('Comm promise not found for comm id ...')
not_found(k, id, kind) ==
  [k EXCEPT !.cm.arr = Append(@, [id |-> id, kind |-> kind, chain |-> 0])]

_commOpen(k, msg) ==
  LET c == k.cm.nchain + 1
      id == msg.comm_id
  IN  [k EXCEPT !.cm.nchain = c,
                !.cm.chain[c] = [state |-> "loading", id |-> id,
                                 conts |-> <<>>],
                !.cm.comms[id] = c,
                !.cm.nopen[id] = @ + 1,
                !.cm.arr = Append(@, [id |-> id, kind |-> "open",
                                      chain |-> c])]

\* a comm_close handled at once instead of behind the comm's promise
_commClose_unchained(k, msg) ==
  LET id == msg.comm_id
      c == k.cm.comms[id]
  IN  IF c = 0
      THEN not_found(k, id, "close")
      ELSE LET k1 == [k EXCEPT !.cm.arr = Append(@, [id |-> id,
                                                     kind |-> "close",
                                                     chain |-> c])]
           IN  handleClose(unregisterComm(k1, id), c, Len(k1.cm.arr))

_commClose(k, msg) ==
  LET id == msg.comm_id
  IN  IF k.cm.comms[id] = 0
      THEN not_found(k, id, "close")
      ELSE unregisterComm(then(k, k.cm.comms[id], "close"), id)

_commMsg(k, msg) ==
  LET id == msg.comm_id
  IN  IF k.cm.comms[id] = 0
      THEN not_found(k, id, "msg")
      ELSE then(k, k.cm.comms[id], "msg")

\* the promise of chain c settles
settle(k, c, state) ==
  [k EXCEPT !.cm.chain[c].state = state,
            !.cm.chain[c].conts = IF state = reject THEN <<>> ELSE @]

\* the continuation of loadClass in _commOpen: the target factory throws,
\* returns a value, or returns a promise that is still pending
factory(k, c, outcome) ==
  IF outcome = "throw"
  THEN LET k1 == Comm_close(k)
       IN  IF k1.threw
           THEN settle([k1 EXCEPT !.threw = FALSE], c, reject)
           ELSE settle(unregisterComm(k1, k.cm.chain[c].id), c, reject)
  ELSE IF outcome = "return" THEN settle(k, c, "resolved")
  ELSE settle(k, c, "factory")

\* the oldest continuation of a resolved chain
continuation(k, c) ==
  LET h == Head(k.cm.chain[c].conts)
      k1 == [k EXCEPT !.cm.chain[c].conts = Tail(@)]
  IN  IF h.kind = "close"
      THEN handleClose(unregisterComm(k1, k.cm.chain[c].id), c, h.n)
      ELSE handleMsg(k1, c, h.n)

\* the handlers init_iopub_handlers and the comm manager register, looked
\* up by msg_type
_handle_iopub_message(k, msg) ==
  IF msg.msg_type = "status" THEN _handle_status_message(k, msg)
  ELSE IF msg.msg_type = "clear_output" THEN _handle_clear_output(k, msg)
  ELSE IF msg.msg_type = "execute_input" THEN _handle_input_message(k, msg)
  ELSE IF msg.msg_type \in {"stream", "display_data", "execute_result",
                            "error"}
       THEN _handle_output_message(k, msg)
  ELSE IF msg.msg_type = "comm_open" THEN _commOpen(k, msg)
  ELSE IF msg.msg_type = "comm_close" THEN _commClose(k, msg)
  ELSE IF msg.msg_type = "comm_msg" THEN _commMsg(k, msg)
  ELSE k

_handle_input_request(k, request) ==
  IF request.msg_type # "input_request" THEN k
  ELSE LET callbacks == get_callbacks_for_msg(k, request.parent)
       IN  IF callbacks.def THEN call(k, callbacks.cb.input) ELSE k

\* a message of an unrecognized channel handled as a shell reply
_finish_ws_message_as_shell(k, msg) ==
  IF msg.channel = "iopub" THEN _handle_iopub_message(k, msg)
  ELSE IF msg.channel = "stdin" THEN _handle_input_request(k, msg)
  ELSE _handle_shell_reply(k, msg)

_finish_ws_message(k, msg) ==
  IF msg.channel = "shell" THEN _handle_shell_reply(k, msg)
  ELSE IF msg.channel = "iopub" THEN _handle_iopub_message(k, msg)
  ELSE IF msg.channel = "stdin" THEN _handle_input_request(k, msg)
  ELSE k

\* the continuation `function(msg) { return this._finish_ws_message(msg); }`
\* is a plain function called by the promise machinery: `this` is not the
\* kernel, and the property access throws before any handler runs
dispatch_continuation(k, msg) == [k EXCEPT !.threw = TRUE]

\* _handle_ws_message chains one job on this._msg_queue; e.data is a string
\* for a text frame and a Blob for a binary frame (binaryType is never set)
_handle_ws_message(k, msg) ==
  [k EXCEPT !.msg_queue.jobs = Append(@, msg),
            !.msg_queue.blob = Append(@, FALSE)]

_handle_ws_message_blob(k, msg) ==
  [k EXCEPT !.msg_queue.jobs = Append(@, msg),
            !.msg_queue.blob = Append(@, TRUE)]

\* utils.reject exists in two revisions: the handler it makes returns
\* Promise.reject(wrapped_error) in one and Promise.resolve(wrapped_error)
\* in the other
Revisions == {"reject", "resolve"}

\* the handler given to .catch in _handle_ws_message ends the job: the
\* promise stored in _msg_queue settles as the handler's promise does
catch_reject(k, rev) ==
  [k EXCEPT !.threw = FALSE, !.rejected = FALSE,
            !.msg_queue.state = IF rev = "reject" THEN reject
                                ELSE "resolved"]

\* a frame that is not a message: JSON.parse throws in deserialize
Malformed == [NoMsg EXCEPT !.msg_type = "malformed"]

deserialize_frame(k, msg) ==
  IF msg = Malformed THEN [k EXCEPT !.threw = TRUE] ELSE k

\* the chained job: deserialize, then the continuation, then the catch
\* handler; a queue already rejected skips the first two
msg_queue_job(k, msg, rev) ==
  IF k.msg_queue.state = reject
  THEN catch_reject(k, rev)
  ELSE LET k0 == deserialize_frame(k, msg)
           k1 == IF k0.threw THEN k0 ELSE dispatch_continuation(k0, msg)
       IN  IF k1.threw \/ k1.rejected
           THEN catch_reject(k1, rev)
           ELSE k1

\* _deserializeBinary of a Blob: the FileReader is started and the job waits
\* for reader.onload; a queue already rejected goes to the catch handler
msg_queue_read(k, rev) ==
  IF k.msg_queue.state = reject
  THEN [catch_reject(k, rev) EXCEPT !.msg_queue.jobs = Tail(@),
                                    !.msg_queue.blob = Tail(@)]
  ELSE [k EXCEPT !.msg_queue.reading = TRUE]

\* reader.onload resolves the promise of _deserializeBinary: the continuation
\* and the catch handler follow as microtasks
reader_onload(k, msg, rev) ==
  LET k0 == [k EXCEPT !.msg_queue.reading = FALSE,
                      !.msg_queue.jobs = Tail(@),
                      !.msg_queue.blob = Tail(@)]
      k1 == dispatch_continuation(k0, msg)
  IN  IF k1.threw \/ k1.rejected THEN catch_reject(k1, rev) ELSE k1

\* an input reply sent through send_shell_message, which tracks it
send_input_reply_tracked(k) ==
  send_shell_message(trigger(k, "input_reply"), "input_reply", FALSE, NoCb)

\* send_input_reply draws a msg_id in _get_msg and writes to the socket; it
\* does not call set_callbacks_for_msg
send_input_reply(k) ==
  IF ~is_connected(k)
  THEN [k EXCEPT !.threw = TRUE]
  ELSE LET k1 == trigger(k, "input_reply")
       IN  [k1 EXCEPT !.nextId = @ + 1,
                      !.msg_callbacks = Append(@, NoCb),
                      !.wire = Append(@, [type |-> "input_reply",
                                          sock |-> k.ws,
                                          channel |-> "stdin"])]

execute(k, cbs) ==
  send_shell_message(trigger(k, "execution_request"), "execute_request",
                     TRUE, cbs)

\* ------------------------------------------------------------ serialize
\* A JS number is an integer or NaN; undefined in arithmetic gives NaN.
NaN == -1

plus(a, b) == IF a = NaN \/ b = NaN THEN NaN ELSE a + b

\* byte values of buffers, and the values a JSON field takes: one ASCII
\* character and one character that UTF-8 encodes in two bytes
ByteVals == {7, 200}
JsonVals == {49, 233}

\* an ArrayBuffer holding data, a DataView over a part of one, and a plain
\* Array of numbers (which has no byteLength)
ArrayBuffer(data) ==
  [kind |-> "ArrayBuffer", data |-> data, byteOffset |-> 0,
   byteLength |-> Len(data)]

DataView(data, off, len) ==
  [kind |-> "DataView", data |-> data, byteOffset |-> off, byteLength |-> len]

Array(data) ==
  [kind |-> "Array", data |-> data, byteOffset |-> 0, byteLength |-> NaN]

\* the bytes seen through a buffer object
Bytes(b) ==
  IF b.kind = "DataView"
  THEN SubSeq(b.data, b.byteOffset + 1, b.byteOffset + b.byteLength)
  ELSE b.data

\* buf.slice(start, stop)
slice(buf, start, stop) == SubSeq(buf, start + 1, stop)

RECURSIVE concat(_)
concat(ss) == IF ss = <<>> THEN <<>> ELSE Head(ss) \o concat(Tail(ss))

\* TextEncoder('utf8').encode and TextDecoder('utf8').decode, for code units
\* below 2048
RECURSIVE utf8_encode(_)
utf8_encode(text) ==
  IF text = <<>> THEN <<>>
  ELSE (IF Head(text) < 128
        THEN <<Head(text)>>
        ELSE <<192 + (Head(text) \div 64), 128 + (Head(text) % 64)>>)
       \o utf8_encode(Tail(text))

RECURSIVE utf8_decode(_)
utf8_decode(bytes) ==
  IF bytes = <<>> THEN <<>>
  ELSE IF Head(bytes) < 128 \/ Len(bytes) < 2
       THEN <<Head(bytes)>> \o utf8_decode(Tail(bytes))
       ELSE <<(Head(bytes) - 192) * 64 + (bytes[2] - 128)>>
            \o utf8_decode(Tail(Tail(bytes)))

\* JSON.stringify(msg) as a sequence of code units: braces around the
\* fields in the order _get_msg creates them, each a key and its value; a
\* buffers field is written only for an empty list ("[]"), the one case in
\* which serialize passes it to JSON.stringify
JSON_stringify(msg) ==
  <<123, 1, msg.header, 2, msg.metadata, 3, msg.content>>
  \o (IF msg.hasBuffers THEN <<4, 91, 93>> ELSE <<>>)
  \o <<5, msg.parent_header, 125>>

JSON_parse(text) ==
  LET withBuffers == text[8] = 4
  IN  [header |-> text[3], metadata |-> text[5], content |-> text[7],
       hasBuffers |-> withBuffers, buffers |-> <<>>,
       parent_header |-> IF withBuffers THEN text[12] ELSE text[9]]

\* DataView.setUint32 / getUint32, big-endian
Uint32(v) ==
  LET n == IF v = NaN THEN 0 ELSE v
  IN  <<(n \div 16777216) % 256, (n \div 65536) % 256, (n \div 256) % 256,
        n % 256>>

getUint32(buf, pos) ==
  buf[pos + 1] * 16777216 + buf[pos + 2] * 65536 + buf[pos + 3] * 256
  + buf[pos + 4]

\* the offset table of _serializeBinary: offsets[0] = 4 * (nbufs + 1), then
\* each offset is the one before plus buffers[i].byteLength
RECURSIVE Offsets(_, _)
Offsets(buffers, n) ==
  IF n = 1 THEN <<4 * (Len(buffers) + 1)>>
  ELSE LET o == Offsets(buffers, n - 1)
       IN  Append(o, plus(o[n - 1], buffers[n - 1].byteLength))

\* The JSON part is put in front of the buffers as
\* Array.prototype.slice.call(json_utf8), a plain Array: its byteLength is
\* undefined, every offset after the first is NaN and so is the length
\* passed to new Uint8Array.  The frame is then empty (or the constructor
\* throws a RangeError, in engines of the ES2015 edition), and
\* view.setUint32(0, nbufs) throws a RangeError.
_serializeBinary(msg) ==
  LET buffers == <<Array(utf8_encode(JSON_stringify(
                      [msg EXCEPT !.hasBuffers = FALSE, !.buffers = <<>>])))>>
                 \o [i \in 1 .. Len(msg.buffers) |->
                       IF msg.buffers[i].kind = "ArrayBuffer"
                       THEN msg.buffers[i]
                       ELSE ArrayBuffer(msg.buffers[i].data)]
      nbufs == Len(buffers)
      offsets == Offsets(buffers, nbufs)
      length == plus(offsets[nbufs], buffers[nbufs].byteLength)
      after == [msg EXCEPT !.buffers = buffers]
  IN  IF length = NaN
      THEN [thrown |-> TRUE, type |-> "none", data |-> <<>>, msg |-> after]
      ELSE [thrown |-> FALSE, type |-> "ArrayBuffer",
            data |-> Uint32(nbufs)
                     \o concat([i \in 1 .. nbufs |-> Uint32(offsets[i])])
                     \o concat([i \in 1 .. nbufs |-> buffers[i].data]),
            msg |-> after]

serialize(msg) ==
  IF msg.hasBuffers /\ Len(msg.buffers) > 0
  THEN _serializeBinary(msg)
  ELSE [thrown |-> FALSE, type |-> "string", data |-> JSON_stringify(msg),
        msg |-> msg]

_deserializeArrayBuffer(buf) ==
  LET nbufs == getUint32(buf, 0)
      offsets == [i \in 1 .. nbufs |-> getUint32(buf, i * 4)]
      stop(i) == IF i + 1 <= nbufs /\ offsets[i + 1] # 0
                 THEN offsets[i + 1] ELSE Len(buf)
      json_bytes == slice(buf, offsets[1],
                          IF nbufs >= 2 THEN offsets[2] ELSE Len(buf))
      msg == JSON_parse(utf8_decode(json_bytes))
  IN  [msg EXCEPT !.hasBuffers = TRUE,
                  !.buffers = [i \in 1 .. (nbufs - 1) |->
                                 LET part == slice(buf, offsets[i + 1],
                                                   stop(i + 1))
                                 IN  DataView(part, 0, Len(part))]]

deserialize(data) ==
  IF data.type = "string" THEN JSON_parse(data.data)
  ELSE _deserializeArrayBuffer(data.data)

\* the messages serialize is applied to
Datas == UNION { [1 .. n -> ByteVals] : n \in 0 .. MaxBufLen }

BufferObjects ==
  { ArrayBuffer(d) : d \in Datas } \cup
  { DataView(v[1], v[2], v[3]) :
      v \in { w \in Datas \X (0 .. MaxBufLen) \X (0 .. MaxBufLen) :
                w[2] + w[3] <= Len(w[1]) } }

BufferLists == UNION { [1 .. n -> BufferObjects] : n \in 0 .. MaxBufs }

Message(h, c, hasBuffers, buffers) ==
  [header |-> h, metadata |-> 49, content |-> c, hasBuffers |-> hasBuffers,
   buffers |-> buffers, parent_header |-> 233]

Messages ==
  { Message(h, c, TRUE, bs) : h \in JsonVals, c \in JsonVals,
                              bs \in BufferLists } \cup
  { Message(h, c, FALSE, <<>>) : h \in JsonVals, c \in JsonVals }

NoCodec ==
  [step |-> "none", msg |-> Message(0, 0, FALSE, <<>>),
   out |-> [thrown |-> FALSE, type |-> "none", data |-> <<>>,
            msg |-> Message(0, 0, FALSE, <<>>)],
   back |-> Message(0, 0, FALSE, <<>>)]

\* ------------------------------------------------- the content of execute
\* a JavaScript value of an options or content object: typeof is "boolean"
\* or "object"; an object is known by the names of its properties
Bool(b) == [type |-> "boolean", val |-> b, props |-> {}]

Obj(props) == [type |-> "object", val |-> FALSE, props |-> props]

\* the fields of the content besides code, and the properties a
\* user_expressions object may have
Fields == {"silent", "store_history", "user_expressions", "allow_stdin"}

ExprNames == {"x"}

\* the literal that execute starts from
Defaults ==
  [silent |-> Bool(TRUE), store_history |-> Bool(FALSE),
   user_expressions |-> Obj({}), allow_stdin |-> Bool(FALSE)]

\* an extend in which the fields already in target are kept
extend_target_first(target, source) ==
  [prop \in DOMAIN target \cup DOMAIN source |->
     IF prop \in DOMAIN target THEN target[prop] ELSE source[prop]]

\* utils.extend, and $.extend(true, ...) on values of these types: a
\* property of type object is merged into the target's, any other is
\* assigned over it
extend(target, source) ==
  [prop \in DOMAIN target \cup DOMAIN source |->
     IF prop \notin DOMAIN source THEN target[prop]
     ELSE IF source[prop].type = "object"
          THEN Obj((IF prop \in DOMAIN target /\ target[prop].type = "object"
                    THEN target[prop].props ELSE {})
                   \cup source[prop].props)
          ELSE source[prop]]

\* the content execute builds from callbacks.input and options
execute_content(hasInput, options) ==
  LET content == IF hasInput
                 THEN [Defaults EXCEPT !.allow_stdin = Bool(TRUE)]
                 ELSE Defaults
  IN  extend(content, options)

\* the options objects callers pass: any subset of the fields, booleans for
\* the flags and an object for user_expressions; none is the empty object
Options ==
  UNION { { o \in [D -> {Bool(TRUE), Bool(FALSE)} \cup
                        {Obj(ps) : ps \in SUBSET ExprNames}] :
              \A prop \in D :
                (o[prop].type = "object") = (prop = "user_expressions") } :
          D \in SUBSET Fields }

NoRequest == [step |-> "none", hasInput |-> FALSE, options |-> << >>,
              content |-> << >>]

\* ------------------------------------------------------------------ tasks
Begin(task) ==
  [K EXCEPT !.hist.task = task, !.hist.sched = -1, !.hist.msg = NoMsg,
            !.hist.fail = FALSE, !.hist.probed = FALSE, !.hist.neff = 0,
            !.hist.age = "none", !.hist.current = FALSE,
            !.hist.marks = <<>>, !.hist.invoked = FALSE,
            !.hist.attempt = -1]

IdsLeft(k) == k.nextId <= MaxMsgs + MaxSockets

\* start() succeeded: _kernel_created opens the first connection
KernelCreated ==
  /\ nsock = 0
  /\ Commit(start_channels([Begin("kernel_created") EXCEPT !.hist.killed = FALSE]))

\* public calls of the session controller
CallStartChannels ==
  /\ ncalls < MaxExternal
  /\ nsock < MaxExtSockets
  /\ Commit(start_channels([Begin("start_channels") EXCEPT !.ncalls = @ + 1]))

CallStopChannels ==
  /\ ncalls < MaxExternal
  /\ Commit(stop_channels([Begin("stop_channels") EXCEPT
                             !.ncalls = @ + 1,
                             !.hist.stopped = IF is_connected(K)
                                              THEN ws ELSE @]))

CallKill ==
  /\ ncalls < MaxExternal
  /\ ~hist.killed
  /\ Commit(kill([Begin("kill") EXCEPT !.ncalls = @ + 1]))

CallReconnect ==
  /\ ncalls < MaxExternal
  /\ nsock < MaxExtSockets
  /\ Commit(reconnect([Begin("reconnect") EXCEPT !.ncalls = @ + 1]))

\* the first second of socket s lasts until the timer set with it is due
Age(s) ==
  IF \E i \in DOMAIN timers : /\ timers[i].kind = "switch"
                               /\ timers[i].owner = s
                               /\ timers[i].rem > 0
  THEN "early"
  ELSE IF \E i \in DOMAIN timers : /\ timers[i].kind = "switch"
                                    /\ timers[i].owner = s
       THEN "edge"
       ELSE "late"

\* websocket events: the readyState changes and the handlers run in one task
WsOpen(s) ==
  /\ s <= nsock
  /\ sock[s].readyState = "CONNECTING"
  /\ IdsLeft(K)
  /\ Commit(_ws_opened([Begin("ws_open") EXCEPT
                          !.sock[s].readyState = "OPEN",
                          !.hist.current = (ws = s)]))

\* the connection failed: error event, then an unclean close event
WsError(s) ==
  /\ s <= nsock
  /\ sock[s].readyState \in {"CONNECTING", "OPEN"}
  /\ LET k0 == [Begin("ws_error") EXCEPT !.sock[s].readyState = "CLOSED",
                                         !.hist.fail = ~called[s],
                                         !.hist.age = Age(s),
                                         !.hist.current = (ws = s)]
     IN  Commit(onclose(ws_error(k0, s), s, FALSE))

\* the connection closed without an error event
WsClose(s, wasClean) ==
  /\ s <= nsock
  /\ sock[s].readyState \in {"OPEN", "CLOSING"}
  /\ LET k0 == [Begin("ws_close") EXCEPT !.sock[s].readyState = "CLOSED",
                                         !.hist.handler = sock[s].kind,
                                         !.hist.wasClean = wasClean,
                                         !.hist.age = Age(s),
                                         !.hist.current = (ws = s),
                                         !.hist.fail =
                                            /\ ~wasClean
                                            /\ sock[s].kind # "close"
                                            /\ ~called[sock[s].owner]]
     IN  Commit(onclose(k0, s, wasClean))

\* timers fire in creation order once due; time advances when none is due
Due == { i \in 1 .. Len(timers) : timers[i].rem = 0 }

FirstDue == CHOOSE i \in Due : \A j \in Due : i <= j

Remove(seq, i) == SubSeq(seq, 1, i - 1) \o SubSeq(seq, i + 1, Len(seq))

SwitchTimer ==
  /\ Due # {}
  /\ timers[FirstDue].kind = "switch"
  /\ Commit(switch_handler(
              [Begin("timer_switch") EXCEPT !.timers = Remove(@, FirstDue)],
              timers[FirstDue].owner))

ReconnectTimer(limit) ==
  /\ Due # {}
  /\ timers[FirstDue].kind = "reconnect"
  /\ is_connected(K) \/ nsock < limit
  /\ Commit(reconnect(
              [Begin("timer_reconnect") EXCEPT !.timers = Remove(@, FirstDue)]))

Tick ==
  /\ Due = {}
  /\ timers # <<>>
  /\ Commit([Begin("tick") EXCEPT
               !.timers = [i \in 1 .. Len(timers) |->
                             [timers[i] EXCEPT !.rem = @ - 1]]])

\* completion of a get_info request issued by ws_closed_early
ProbeSuccess(o) ==
  /\ o \in probes
  /\ Commit(get_info_success([Begin("probe_ok") EXCEPT !.probes = @ \ {o}]))

ProbeError(o) ==
  /\ o \in probes
  /\ Commit(get_info_error([Begin("probe_err") EXCEPT !.probes = @ \ {o}]))

\* ------------------------------------------------------- caller requests
ReplyOnly(cb) == [NoCb EXCEPT !.hasShell = TRUE, !.reply = cb]

OutputOnly(cb) == [NoCb EXCEPT !.hasIopub = TRUE, !.output = cb,
                               !.clear_output = cb]

Both(cb) == [NoCb EXCEPT !.hasShell = TRUE, !.reply = cb,
                         !.hasIopub = TRUE, !.output = cb,
                         !.clear_output = cb, !.input = cb, !.status = cb]

\* the callbacks arguments callers pass to execute
CallbackBags == {NoCb, ReplyOnly("ok"), OutputOnly("ok"), Both("ok"),
                 Both("throw")}

CallExecute(cbs) ==
  /\ hist.nreq < MaxMsgs
  /\ Commit(execute([Begin("execute") EXCEPT !.hist.nreq = @ + 1], cbs))

CallKernelInfo(hasCallback) ==
  /\ hist.nreq < MaxMsgs
  /\ Commit(kernel_info([Begin("kernel_info") EXCEPT !.hist.nreq = @ + 1],
                        hasCallback, "ok"))

\* the caller answers an input request
CallSendInputReply ==
  /\ hist.ninput < MaxInputs
  /\ IdsLeft(K)
  /\ Commit(send_input_reply([Begin("send_input_reply") EXCEPT
                                !.hist.ninput = @ + 1]))

\* the caller gives up a request that is still open
CallClearCallbacks(msg_id) ==
  /\ msg_id \in inTable
  /\ Commit([clear_callbacks_for_msg(Begin("clear_callbacks"), msg_id)
               EXCEPT !.hist.cleared = @ \cup {msg_id}])

\* ---------------------------------------------------- incoming messages
ShellReply(p) == [channel |-> "shell", msg_type |-> "reply", parent |-> p,
                  state |-> "none", comm_id |-> 0]

Status(p, st) == [channel |-> "iopub", msg_type |-> "status", parent |-> p,
                  state |-> st, comm_id |-> 0]

Iopub(p, t) == [channel |-> "iopub", msg_type |-> t, parent |-> p,
                state |-> "none", comm_id |-> 0]

Stdin(p) == [channel |-> "stdin", msg_type |-> "input_request",
             parent |-> p, state |-> "none", comm_id |-> 0]

\* parents worth telling apart: none, another client's, and ids issued
Known(k) == {0, Foreign} \cup (1 .. (k.nextId - 1))

Incoming(k) ==
  UNION { {ShellReply(p), Status(p, "idle"), Status(p, "busy"),
           Iopub(p, "stream"), Iopub(p, "clear_output"),
           Iopub(p, "execute_input"), Stdin(p),
           [ShellReply(p) EXCEPT !.channel = "control"]} : p \in Known(k) }

\* the frames a kernel sends for the requests of this client and of another
Frames(k) ==
  UNION { {ShellReply(p), Status(p, "idle"), Iopub(p, "stream")} :
          p \in Known(k) \ {0} }
  \cup {Malformed}

Processed(k, msg) ==
  [k EXCEPT !.hist.msg = msg,
            !.hist.dropped = @ \/ msg = Malformed,
            !.hist.nrestart = IF msg.msg_type = "status"
                                 /\ msg.state = "restarting"
                              THEN @ + 1 ELSE @,
            !.hist.closed = IF /\ msg.msg_type = "comm_close"
                               /\ msg.comm_id \in cm.local
                               /\ cm.comms[msg.comm_id] # 0
                            THEN @ \cup {msg.comm_id} ELSE @,
            !.hist.procReply = IF msg.channel = "shell" /\ msg.parent \in MsgIds
                               THEN @ \cup {msg.parent} ELSE @,
            !.hist.procIdle = IF msg.msg_type = "status" /\ msg.state = "idle"
                                 /\ msg.parent \in MsgIds
                              THEN @ \cup {msg.parent} ELSE @]

\* continuations chained on a resolved promise are microtasks: they all run
\* before the event loop takes its next task
MicrotasksDrained ==
  \A c \in Chains : cm.chain[c].state = "resolved" => cm.chain[c].conts = <<>>

\* the message event of an open socket: onmessage is _handle_ws_message
WsMessage(s, msg) ==
  /\ MicrotasksDrained
  /\ s <= nsock
  /\ sock[s].readyState = "OPEN"
  /\ hist.nin < MaxIncoming
  /\ Len(msg_queue.jobs) < MaxQueued
  /\ Commit(_handle_ws_message(
              [Begin("ws_message") EXCEPT !.hist.nin = @ + 1], msg))

\* the job chained for the oldest message runs to its end
MsgQueueJob ==
  /\ msg_queue.jobs # <<>>
  /\ ~Head(msg_queue.blob)
  /\ \E rev \in Revisions :
       /\ hist.rev \in {"none", rev}
       /\ LET msg == Head(msg_queue.jobs)
              k0 == [Begin("msg_queue_job") EXCEPT
                       !.msg_queue.jobs = Tail(@),
                       !.msg_queue.blob = Tail(@), !.hist.rev = rev]
          IN  Commit(Processed(msg_queue_job(k0, msg, rev), msg))

\* the message event of an open socket for a binary frame
WsBlobMessage(s, msg) ==
  /\ MicrotasksDrained
  /\ s <= nsock
  /\ sock[s].readyState = "OPEN"
  /\ hist.nin < MaxIncoming
  /\ Len(msg_queue.jobs) < MaxQueued
  /\ Commit(_handle_ws_message_blob(
              [Begin("ws_message") EXCEPT !.hist.nin = @ + 1], msg))

\* the job chained for the oldest message starts to read its Blob
MsgQueueRead ==
  /\ msg_queue.jobs # <<>>
  /\ Head(msg_queue.blob)
  /\ ~msg_queue.reading
  /\ \E rev \in Revisions :
       /\ hist.rev \in {"none", rev}
       /\ LET msg == Head(msg_queue.jobs)
              k0 == [Begin("msg_queue_read") EXCEPT !.hist.rev = rev]
              k1 == msg_queue_read(k0, rev)
          IN  Commit(IF k1.msg_queue.reading THEN k1
                     ELSE Processed(k1, msg))

\* the FileReader of the job being read fires its load event
ReaderLoad ==
  /\ msg_queue.reading
  /\ \E rev \in Revisions :
       /\ hist.rev \in {"none", rev}
       /\ LET msg == Head(msg_queue.jobs)
              k0 == [Begin("reader_load") EXCEPT !.hist.rev = rev]
          IN  Commit(Processed(reader_onload(k0, msg, rev), msg))

\* _finish_ws_message entered directly with a decoded message, the call the
\* continuation in _handle_ws_message is written to make
FinishWsMessage(msg, limit) ==
  /\ MicrotasksDrained
  /\ hist.nin < limit
  /\ Commit(Processed(
              _finish_ws_message(
                [Begin("finish_ws_message") EXCEPT !.hist.nin = @ + 1,
                                                   !.hist.ndisp = @ + 1],
                msg),
              msg))

\* ------------------------------------------------------------ comm tasks
Comm(t, id) == [channel |-> "iopub", msg_type |-> t, parent |-> 0,
                state |-> "none", comm_id |-> id]

\* the comm messages a kernel sends
CommFrames(k) ==
  UNION { {Comm("comm_msg", id), Comm("comm_close", id)} \cup
          (IF k.cm.nchain < MaxChains THEN {Comm("comm_open", id)} ELSE {}) :
          id \in CommIds }

\* the caller opens a comm; its id is a fresh uuid
NewComm(target_name, id) ==
  /\ MicrotasksDrained
  /\ cm.nchain < MaxChains
  /\ cm.nopen[id] = 0
  /\ Commit(newComm(Begin("new_comm"), target_name, id))

\* the caller closes a comm it got from newComm: Comm.close()
CommClose(id) ==
  /\ MicrotasksDrained
  /\ id \in cm.local
  /\ id \notin hist.localClosed
  /\ IdsLeft(K)
  /\ LET k1 == Comm_close(Begin("comm_close"))
     IN  Commit(IF k1.threw THEN k1
                ELSE [k1 EXCEPT !.hist.localClosed = @ \cup {id}])

\* loadClass settles: the class was found and the factory ran, or not
LoadClassSettled(c, outcome) ==
  /\ MicrotasksDrained
  /\ cm.chain[c].state = "loading"
  /\ Commit(IF outcome = "notfound"
            THEN settle(Begin("load_class"), c, reject)
            ELSE factory(Begin("load_class"), c, outcome))

\* the promise the factory returned settles
FactorySettled(c, ok) ==
  /\ MicrotasksDrained
  /\ cm.chain[c].state = "factory"
  /\ Commit(settle(Begin("factory_settled"), c,
                   IF ok THEN "resolved" ELSE reject))

Continuation(c) ==
  /\ cm.chain[c].state = "resolved"
  /\ cm.chain[c].conts # <<>>
  /\ Commit(continuation(Begin("continuation"), c))

InitKernel ==
  /\ ws = 0
  /\ sock = <<>>
  /\ nsock = 0
  /\ called = <<>>
  /\ timers = <<>>
  /\ probes = {}
  /\ reconnect_attempt = 0
  /\ autorestart_attempt = 0
  /\ msg_queue = [state |-> "resolved", jobs |-> <<>>, blob |-> <<>>,
                  reading |-> FALSE]
  /\ msg_callbacks = <<>>
  /\ inTable = {}
  /\ last_msg_id = 0
  /\ lastHasCb = FALSE
  /\ nextId = 1
  /\ wire = <<>>
  /\ emitted = <<>>
  /\ threw = FALSE
  /\ rejected = FALSE
  /\ ncalls = 0
  /\ cm = [comms |-> [i \in CommIds |-> 0],
           chain |-> [c \in Chains |-> NoChain],
           nchain |-> 0,
           nopen |-> [i \in CommIds |-> 0],
           local |-> {},
           arr |-> <<>>,
           content |-> <<>>,
           log |-> <<>>]
  /\ hist = [task |-> "init", sched |-> -1, connDead |-> 0, held |-> 0,
             handler |-> "none", wasClean |-> FALSE,
             done |-> <<>>,
             procReply |-> {}, procIdle |-> {},
             msg |-> NoMsg, nin |-> 0, nreq |-> 0, fail |-> FALSE,
             probed |-> FALSE, neff |-> 0, age |-> "none",
             current |-> FALSE, marks |-> <<>>, invoked |-> FALSE,
             cleared |-> {}, rev |-> "none", dropped |-> FALSE,
             ninput |-> 0, dead |-> 0, localClosed |-> {}, ndisp |-> 0,
             nrestart |-> 0, attempt |-> -1, stopped |-> 0,
             fresh |-> FALSE, killed |-> FALSE, replied |-> {},
             closed |-> {}]

Init ==
  /\ InitKernel
  /\ codec = NoCodec
  /\ exec_call = NoRequest

\* serialize applied to a message, deserialize applied to what it returned
InitSerialize ==
  /\ InitKernel
  /\ \E msg \in Messages : codec = [NoCodec EXCEPT !.step = "message",
                                                   !.msg = msg]
  /\ exec_call = NoRequest

kvars == << ws, sock, nsock, called, timers, probes, reconnect_attempt,
            autorestart_attempt, msg_queue, msg_callbacks, inTable,
            last_msg_id, lastHasCb, nextId, wire, emitted, threw, rejected,
            ncalls, cm, hist >>

CallSerialize ==
  /\ codec.step = "message"
  /\ codec' = [codec EXCEPT !.step = "serialized",
                            !.out = serialize(codec.msg)]
  /\ UNCHANGED << kvars, exec_call >>

CallDeserialize ==
  /\ codec.step = "serialized"
  /\ ~codec.out.thrown
  /\ codec' = [codec EXCEPT !.step = "deserialized",
                            !.back = deserialize(codec.out)]
  /\ UNCHANGED << kvars, exec_call >>

NextSerialize ==
  \/ CallSerialize
  \/ CallDeserialize

SpecSerialize == InitSerialize /\ [][NextSerialize]_vars

\* execute called with an input callback or without, and with options
InitExecute ==
  /\ InitKernel
  /\ codec = NoCodec
  /\ \E hasInput \in BOOLEAN, options \in Options :
       exec_call = [step |-> "called", hasInput |-> hasInput,
                  options |-> options, content |-> << >>]

CallExecuteContent ==
  /\ exec_call.step = "called"
  /\ exec_call' = [exec_call EXCEPT
                   !.step = "sent",
                   !.content = execute_content(exec_call.hasInput,
                                               exec_call.options)]
  /\ UNCHANGED << kvars, codec >>

NextExecute == CallExecuteContent

SpecExecute == InitExecute /\ [][NextExecute]_vars

\* what the environment does to the sockets, the timers and the probes
Environment(limit) ==
  \/ \E s \in Sockets : WsOpen(s)
  \/ \E s \in Sockets : WsError(s)
  \/ \E s \in Sockets, wasClean \in BOOLEAN : WsClose(s, wasClean)
  \/ SwitchTimer
  \/ ReconnectTimer(limit)
  \/ Tick
  \/ \E o \in Sockets : ProbeSuccess(o)
  \/ \E o \in Sockets : ProbeError(o)

\* the connection manager left to itself after the kernel was started: every
\* start_channels after the first comes from a reconnect timer
NextAuto ==
  \/ KernelCreated
  \/ Environment(MaxSockets)

SpecAuto == Init /\ [][NextAuto]_vars

\* the connection manager with the session controller calling into it
NextConn ==
  \/ KernelCreated
  \/ CallStartChannels
  \/ CallStopChannels
  \/ CallReconnect
  \/ Environment(MaxExtSockets)

SpecConn == Init /\ [][NextConn]_vars

\* one connection that opens and stays open
Connect ==
  \/ KernelCreated
  \/ \E s \in Sockets : WsOpen(s)

Requests ==
  \/ \E cbs \in CallbackBags : CallExecute(cbs)
  \/ \E hasCallback \in BOOLEAN : CallKernelInfo(hasCallback)

\* requests and the messages the transport delivers for them
NextMsg ==
  \/ Connect
  \/ Requests
  \/ \E s \in Sockets : \E msg \in Frames(K) : WsMessage(s, msg)
  \/ MsgQueueJob

SpecMsg == Init /\ [][NextMsg]_vars

\* requests and the message handlers
NextDispatch ==
  \/ Connect
  \/ Requests
  \/ \E msg \in Incoming(K) : FinishWsMessage(msg, MaxIncoming)

SpecDispatch == Init /\ [][NextDispatch]_vars

\* requests, input requests of the kernel and the caller's input replies
NextInput ==
  \/ Connect
  \/ Requests
  \/ \E p \in Known(K) : FinishWsMessage(Stdin(p), MaxIncoming)
  \/ CallSendInputReply

SpecInput == Init /\ [][NextInput]_vars

\* the execution states a status message carries
ExecutionStates == {"busy", "idle", "starting", "restarting", "dead"}

\* requests and the status messages of the kernel, handled directly
NextStatus ==
  \/ Connect
  \/ Requests
  \/ \E p \in Known(K), st \in ExecutionStates :
       /\ st = "starting" => IdsLeft(K)
       /\ FinishWsMessage(Status(p, st), MaxIncoming)

SpecStatus == Init /\ [][NextStatus]_vars

\* the connection manager of a kernel that reports its death on the open
\* transport
NextDead ==
  \/ KernelCreated
  \/ Environment(MaxExtSockets)
  \/ /\ is_connected(K)
     /\ FinishWsMessage(Status(0, "dead"), MaxQueued)

SpecDead == Init /\ [][NextDead]_vars

\* the target names callers open comms for
Targets == {"widget", "link"}

\* callers that open comms next to their requests, and the kernel's side
NextNewComm ==
  \/ Connect
  \/ Requests
  \/ \E target_name \in Targets, id \in CommIds : NewComm(target_name, id)
  \/ \E msg \in CommFrames(K) : FinishWsMessage(msg, MaxQueued)
  \/ \E c \in Chains : Continuation(c)

SpecNewComm == Init /\ [][NextNewComm]_vars

\* comms opened and closed by the caller and closed by the kernel
NextCommClose ==
  \/ Connect
  \/ \E id \in CommIds : NewComm("widget", id)
  \/ \E id \in CommIds : CommClose(id)
  \/ \E id \in CommIds, t \in {"comm_msg", "comm_close"} :
       FinishWsMessage(Comm(t, id), MaxCommIn)
  \/ \E c \in Chains : Continuation(c)

SpecCommClose == Init /\ [][NextCommClose]_vars

\* the well-formed frames of a kernel, text and binary
OrderFrames(k) == Frames(k) \ {Malformed}

\* requests and the text and binary frames the transport delivers for them
NextOrder ==
  \/ Connect
  \/ Requests
  \/ \E s \in Sockets : \E msg \in OrderFrames(K) : WsMessage(s, msg)
  \/ \E s \in Sockets : \E msg \in OrderFrames(K) : WsBlobMessage(s, msg)
  \/ MsgQueueJob
  \/ MsgQueueRead
  \/ ReaderLoad

SpecOrder == Init /\ [][NextOrder]_vars

\* what a kernel that restarts sends: its status, and replies
RestartFrames(k) ==
  {Status(0, "restarting"), Status(0, "starting")}
  \cup {ShellReply(p) : p \in Known(k) \ {0}}

\* a kernel that restarts, behind the websocket
NextRestart ==
  \/ Connect
  \/ Requests
  \/ \E s \in Sockets : \E msg \in RestartFrames(K) : WsMessage(s, msg)
  \/ MsgQueueJob

SpecRestart == Init /\ [][NextRestart]_vars

\* a kernel that restarts, with the message handlers entered directly
NextRestartDirect ==
  \/ Connect
  \/ Requests
  \/ \E msg \in RestartFrames(K) :
       /\ msg.state = "starting" => IdsLeft(K)
       /\ FinishWsMessage(msg, MaxCommIn)

SpecRestartDirect == Init /\ [][NextRestartDirect]_vars

\* the connection manager with a caller that only stops the channels
NextStop ==
  \/ KernelCreated
  \/ CallStopChannels
  \/ Environment(MaxExtSockets)

\* the close event of a socket that is closing
ClosingDelivered ==
  \E s \in Sockets, wasClean \in BOOLEAN :
    /\ WsClose(s, wasClean)
    /\ sock[s].readyState = "CLOSING"

\* timers that are due fire and time goes on
TimePasses ==
  \/ SwitchTimer
  \/ ReconnectTimer(MaxExtSockets)
  \/ Tick

SpecStop == Init /\ [][NextStop]_vars

\* the browser delivers the close event of a closing socket and runs the
\* timers
SpecStopFair ==
  /\ SpecStop
  /\ WF_vars(ClosingDelivered)
  /\ WF_vars(TimePasses)

\* requests followed by a comm_open, another shell request, and the
\* messages of the kernel handled directly
NextLate ==
  \/ Connect
  \/ Requests
  \/ \E id \in CommIds : NewComm("widget", id)
  \/ \E msg \in OrderFrames(K) : FinishWsMessage(msg, MaxCommIn)

SpecLate == Init /\ [][NextLate]_vars

\* the connection manager of a kernel that the caller kills
NextKill ==
  \/ KernelCreated
  \/ CallKill
  \/ Environment(MaxExtSockets)

SpecKill == Init /\ [][NextKill]_vars

\* the message handlers with callers that give up open requests
NextCancel ==
  \/ NextDispatch
  \/ \E msg_id \in MsgIds : CallClearCallbacks(msg_id)

SpecCancel == Init /\ [][NextCancel]_vars

\* the comm manager with its handlers entered directly
NextComm ==
  \/ Connect
  \/ \E id \in CommIds : NewComm("widget", id)
  \/ \E msg \in CommFrames(K) : FinishWsMessage(msg, MaxCommIn)
  \/ \E c \in Chains :
       \E outcome \in {"notfound", "throw", "return", "promise"} :
         LoadClassSettled(c, outcome)
  \/ \E c \in Chains, ok \in BOOLEAN : FactorySettled(c, ok)
  \/ \E c \in Chains : Continuation(c)

SpecComm == Init /\ [][NextComm]_vars

\* the comm manager behind the websocket
NextCommWire ==
  \/ Connect
  \/ \E id \in CommIds : NewComm("widget", id)
  \/ \E s \in Sockets : \E msg \in CommFrames(K) : WsMessage(s, msg)
  \/ MsgQueueJob

SpecCommWire == Init /\ [][NextCommWire]_vars

\* -------------------------------------------------------------- properties
\* C1: every tracked shell request completes (its entry leaves the table of
\* open requests) exactly once, and only after both its shell reply and its
\* matching iopub idle status have been processed.
C1_CompletesOnceAfterBoth ==
  \A i \in MsgIds :
    /\ Cardinality({j \in DOMAIN hist.done : hist.done[j] = i}) <= 1
    /\ (\E j \in DOMAIN hist.done : hist.done[j] = i)
       => (i \in hist.procReply /\ i \in hist.procIdle)

\* C2: a shell request made while is_connected() is false throws in the
\* call; nothing is written to the socket, nothing is queued, and the table
\* of open requests and last_msg_id stay as they were.
C2_SendWhileDisconnectedThrows ==
  [][(~is_connected(K) /\ hist'.task \in {"execute", "kernel_info"})
       => /\ threw'
          /\ wire' = wire
          /\ nextId' = nextId
          /\ msg_queue' = msg_queue
          /\ inTable' = inTable
          /\ msg_callbacks' = msg_callbacks
          /\ last_msg_id' = last_msg_id
          /\ lastHasCb' = lastHasCb]_vars

\* a request was made on a socket that is still connecting, and threw
C2_Witness ==
  /\ hist.task \in {"execute", "kernel_info"}
  /\ threw
  /\ ws # 0
  /\ sock[ws].readyState = "CONNECTING"

\* C3: every connection attempt that ends in an unclean close or an error
\* schedules the next reconnect 2^N seconds later, N being the attempts made
\* so far, until reconnect_limit attempts failed; then nothing is scheduled
\* and connection_dead is emitted, exactly once.
C3_BackoffUntilDead ==
  /\ hist.connDead <= 1
  /\ hist.fail =>
       IF reconnect_attempt < reconnect_limit
       THEN hist.sched = Pow2(reconnect_attempt)
       ELSE /\ hist.sched = -1
            /\ \E i \in DOMAIN emitted : emitted[i] = "connection_dead"

\* C4: an exception thrown by a callback of the caller while a message is
\* dispatched is caught: the dispatch of the message neither throws nor
\* returns a rejected promise.
C4_CallbackExceptionCaught ==
  (hist.task = "finish_ws_message") => (~threw /\ ~rejected)

\* C5: a shell, iopub or stdin message whose parent msg_id matches no open
\* request is surfaced by received_unsolicited_message, and handling it does
\* not throw.
C5_UnmatchedParentSurfaced ==
  (/\ hist.task = "finish_ws_message"
   /\ hist.msg.parent = Foreign
   /\ hist.msg.channel \in {"shell", "iopub", "stdin"})
  => /\ ~threw
     /\ \E i \in DOMAIN emitted : emitted[i] = "received_unsolicited_message"

\* C6: once a comm_close for a comm opened with newComm (its id registered
\* that once) was received and every continuation has run, the close callback was called exactly once,
\* the comm is out of the registry, and nothing that arrived later for its
\* id was delivered.
C6_LocalCommClosedOnce ==
  \A id \in hist.closed :
    (cm.nopen[id] = 1 /\ \A c \in Chains : cm.chain[c].conts = <<>>)
    => /\ cm.comms[id] = 0
       /\ Cardinality({i \in DOMAIN cm.log : /\ cm.log[i].id = id
                                              /\ cm.log[i].kind = "close"}) = 1
       /\ \A i, j \in DOMAIN cm.log :
            (cm.log[i].id = id /\ cm.log[i].kind = "close" /\ i < j)
            => cm.log[j].id # id

\* C7: for each comm id, comm_open, comm_msg and comm_close are handled one
\* at a time in arrival order: the callbacks run in the order their
\* messages arrived, only on a promise that resolved, and a close callback
\* runs after every message that arrived before its comm_close.
C7_InArrivalOrder ==
  \A id \in CommIds :
    /\ \A i, j \in DOMAIN cm.log :
         (i < j /\ cm.log[i].id = id /\ cm.log[j].id = id)
         => cm.log[i].n < cm.log[j].n
    /\ \A i \in DOMAIN cm.log :
         cm.chain[cm.log[i].chain].state = "resolved"
    /\ \A j \in DOMAIN cm.log, n \in DOMAIN cm.arr :
         (/\ cm.log[j].id = id
          /\ cm.log[j].kind = "close"
          /\ cm.arr[n].id = id
          /\ cm.arr[n].kind = "msg"
          /\ cm.arr[n].chain # 0
          /\ n < cm.log[j].n)
         => \E i \in 1 .. (j - 1) : cm.log[i].n = n

\* C7 as the code keeps it: for each comm id registered at most once (one
\* newComm or one comm_open), the callbacks run in arrival order, only
\* after the factory's promise resolved, and the close callback runs after
\* every message that arrived before the comm_close.
C7_InArrivalOrderOpenedOnce ==
  \A id \in CommIds :
    (cm.nopen[id] <= 1) =>
    /\ \A i, j \in DOMAIN cm.log :
         (i < j /\ cm.log[i].id = id /\ cm.log[j].id = id)
         => cm.log[i].n < cm.log[j].n
    /\ \A i \in DOMAIN cm.log :
         cm.chain[cm.log[i].chain].state = "resolved"
    /\ \A j \in DOMAIN cm.log, n \in DOMAIN cm.arr :
         (/\ cm.log[j].id = id
          /\ cm.log[j].kind = "close"
          /\ cm.arr[n].id = id
          /\ cm.arr[n].kind = "msg"
          /\ cm.arr[n].chain # 0
          /\ n < cm.log[j].n)
         => \E i \in 1 .. (j - 1) : cm.log[i].n = n

\* a comm opened once by the kernel got two messages and a close, and the
\* three callbacks have run
C7_Witness ==
  \E id \in CommIds :
    /\ cm.nopen[id] = 1
    /\ id \notin cm.local
    /\ Len(cm.log) = 3
    /\ cm.log[1].kind = "msg"
    /\ cm.log[2].kind = "msg"
    /\ cm.log[3].kind = "close"

\* C8: at most one transport is connecting or open at any time.
C8_OneLiveTransport ==
  Cardinality({s \in DOMAIN sock :
                 sock[s].readyState \in {"CONNECTING", "OPEN"}}) <= 1

\* C9: this.ws is null only when the transport last held is CLOSED.
C9_NullOnlyWhenClosed ==
  (is_fully_disconnected(K) /\ hist.held # 0)
  => sock[hist.held].readyState = "CLOSED"

\* stop_channels ran, a transport had been held, and the kernel is fully
\* disconnected
C9_Witness ==
  /\ hist.task = "stop_channels"
  /\ hist.held # 0
  /\ is_fully_disconnected(K)

\* C10: after an unclean close in the first second the get_info probe
\* decides: on success the kernel reports disconnected and a reconnect is
\* scheduled, on failure it reports dead and no reconnect is scheduled.
C10_ProbeDecides ==
  /\ (hist.task = "probe_ok")
     => /\ \E i \in DOMAIN emitted : emitted[i] = "disconnected"
        /\ hist.sched >= 0
  /\ (hist.task = "probe_err")
     => /\ \E i \in DOMAIN emitted : emitted[i] = "dead"
        /\ hist.sched = -1

\* C11: an unclean close of the current transport after its first second is
\* handled as a disconnect at once (disconnected status, then a reconnect
\* scheduled or connection_dead) with no get_info probe, and of the early,
\* late and error handlers at most one takes effect for one transport.
C11_LateCloseDirect ==
  /\ hist.neff <= 1
  /\ (/\ hist.task = "ws_close"
      /\ ~hist.wasClean
      /\ hist.current
      /\ hist.age = "late")
     => /\ ~hist.probed
        /\ \E i \in DOMAIN emitted : emitted[i] = "disconnected"
        /\ \/ hist.sched >= 0
           \/ \E i \in DOMAIN emitted : emitted[i] = "connection_dead"

C13_FailedOpenUnregistered ==
  /\ hist.task \in {"load_class", "factory_settled"} => ~threw
  /\ \A c \in 1 .. cm.nchain :
       cm.chain[c].state = reject => cm.comms[cm.chain[c].id] # c

\* C14: a comm_msg or comm_close whose comm id is not in the registry is
\* logged and ignored: no comm callback is invoked, nothing is chained, the
\* registry and the table of open requests stay as they were, and nothing is
\* thrown.
C14_UnknownCommIgnored ==
  [][(/\ hist'.task = "finish_ws_message"
      /\ hist'.msg.msg_type \in {"comm_msg", "comm_close"}
      /\ cm.comms[hist'.msg.comm_id] = 0)
       => /\ cm'.comms = cm.comms
          /\ cm'.chain = cm.chain
          /\ cm'.nchain = cm.nchain
          /\ cm'.log = cm.log
          /\ cm'.arr = Append(cm.arr,
                              [id |-> hist'.msg.comm_id,
                               kind |-> IF hist'.msg.msg_type = "comm_msg"
                                        THEN "msg" ELSE "close",
                               chain |-> 0])
          /\ inTable' = inTable
          /\ msg_callbacks' = msg_callbacks
          /\ ~threw']_vars

\* a comm_msg arrived for an id whose comm had been opened and closed before
C14_Witness ==
  /\ hist.task = "finish_ws_message"
  /\ hist.msg.msg_type = "comm_msg"
  /\ cm.comms[hist.msg.comm_id] = 0
  /\ cm.nchain >= 1
  /\ cm.arr # <<>>
  /\ cm.arr[Len(cm.arr)].chain = 0
  /\ \E i \in DOMAIN cm.log : cm.log[i].kind = "close"

\* C15: for every message with N >= 0 buffers, serialize returns a wire form
\* and deserialize of it has the same header, parent header, metadata and
\* content and a buffers list of the same length whose buffers hold the same
\* bytes in the same order.
C15_RoundTrip ==
  /\ codec.step = "serialized" => ~codec.out.thrown
  /\ codec.step = "deserialized"
     => /\ codec.back.header = codec.msg.header
        /\ codec.back.parent_header = codec.msg.parent_header
        /\ codec.back.metadata = codec.msg.metadata
        /\ codec.back.content = codec.msg.content
        /\ Len(codec.back.buffers) = Len(codec.msg.buffers)
        /\ \A i \in DOMAIN codec.msg.buffers :
             Bytes(codec.back.buffers[i]) = Bytes(codec.msg.buffers[i])

\* C16: serialize returns JSON text exactly for the messages with no buffers
\* field or an empty buffers list, and the binary multipart frame for every
\* message with at least one buffer.
C16_TextIffNoBuffers ==
  codec.step = "serialized"
  => /\ (codec.out.type = "string")
        <=> (~codec.msg.hasBuffers \/ codec.msg.buffers = <<>>)
     /\ Len(codec.msg.buffers) >= 1
        => (~codec.out.thrown /\ codec.out.type = "ArrayBuffer")

\* C17: the task in which the current transport opens triggers connected and
\* sends kernel_info; the task in which the reply to that request is
\* delivered, while the request is open, triggers ready; and ready is
\* triggered only in a task that delivers a reply to a kernel_info request
\* sent on the open of the current transport.
C17_ReadyAfterInfoReply ==
  [][LET infoReply ==
           /\ hist'.task \in {"msg_queue_job", "finish_ws_message"}
           /\ hist'.msg.channel = "shell"
           /\ hist'.msg.parent \in DOMAIN msg_callbacks
           /\ msg_callbacks[hist'.msg.parent].hasShell
           /\ msg_callbacks[hist'.msg.parent].reply = "ready"
     IN  /\ (hist'.task = "ws_open" /\ is_connected(K'))
            => /\ emitted' = <<"connected">>
               /\ wire' = Append(wire, [type |-> "kernel_info_request",
                                        sock |-> ws,
                                        channel |-> "shell"])
               /\ msg_callbacks'[last_msg_id'].reply = "ready"
         /\ (infoReply /\ hist'.msg.parent \in inTable)
            => \E i \in DOMAIN emitted' : emitted'[i] = "ready"
         /\ (\E i \in DOMAIN emitted' : emitted'[i] = "ready")
            => (infoReply /\ wire[hist'.msg.parent].sock = ws)]_vars

\* C18: once the caller has cleared the callbacks of an open request with
\* clear_callbacks_for_msg, no message with that request as parent invokes a
\* callback, and an output message for it is reported as unsolicited.
C18_ClearedNotInvoked ==
  (/\ hist.task = "finish_ws_message"
   /\ hist.msg.parent \in hist.cleared)
  => /\ ~hist.invoked
     /\ hist.msg.msg_type = "stream"
        => \E i \in DOMAIN emitted :
             emitted[i] = "received_unsolicited_message"

\* C19: a message whose channel is none of shell, iopub and stdin is logged
\* and dropped: it invokes no callback, triggers no event, throws nothing,
\* and leaves the table of open requests, the comm registry and the
\* transport as they were.
C19_UnknownChannelDropped ==
  [][(/\ hist'.task = "finish_ws_message"
      /\ hist'.msg.channel \notin {"shell", "iopub", "stdin"})
       => /\ ~hist'.invoked
          /\ emitted' = <<>>
          /\ ~threw'
          /\ ~rejected'
          /\ inTable' = inTable
          /\ msg_callbacks' = msg_callbacks
          /\ last_msg_id' = last_msg_id
          /\ cm' = cm
          /\ ws' = ws
          /\ sock' = sock
          /\ wire' = wire]_vars

\* a message of another channel was handled for a request that is open
C19_Witness ==
  /\ hist.task = "finish_ws_message"
  /\ hist.msg.channel = "control"
  /\ hist.msg.parent \in inTable
  /\ msg_callbacks[hist.msg.parent].hasShell

\* C20: a frame whose deserialization fails is dropped alone: the job of a
\* message does not touch the transport, and every well-formed shell message
\* that comes after a dropped frame is still dispatched (_handle_shell_reply
\* runs for it).
C20_OnlyBadFrameDropped ==
  [][hist'.task = "msg_queue_job"
       => /\ ws' = ws
          /\ sock' = sock
          /\ (hist.dropped /\ hist'.msg.channel = "shell")
             => \E i \in DOMAIN emitted' : emitted'[i] = "shell_reply"]_vars

\* C21: send_input_reply throws in the call when the client is not
\* connected, writing nothing; when connected it writes one message of the
\* stdin channel to the socket and leaves the table of open requests,
\* last_msg_id and last_msg_callbacks as they were.
C21_InputReplyUntracked ==
  [][hist'.task = "send_input_reply"
       => /\ inTable' = inTable
          /\ \A id \in DOMAIN msg_callbacks :
               msg_callbacks'[id] = msg_callbacks[id]
          /\ last_msg_id' = last_msg_id
          /\ lastHasCb' = lastHasCb
          /\ IF is_connected(K)
             THEN /\ ~threw'
                  /\ wire' = Append(wire, [type |-> "input_reply",
                                           sock |-> ws, channel |-> "stdin"])
             ELSE /\ threw'
                  /\ wire' = wire
                  /\ nextId' = nextId]_vars

\* an input reply was sent while a request with callbacks was open
C21_Witness ==
  /\ hist.task = "send_input_reply"
  /\ ~threw
  /\ wire[Len(wire)].channel = "stdin"
  /\ last_msg_id \in inTable
  /\ lastHasCb

\* C22: every status message that is delivered drives the transition of its
\* execution_state (the event of the state is triggered, and restarting
\* adds one to the autorestart counter), whatever its parent and whether or
\* not the parent's callbacks have a status callback.
C22_StatusDrivesTransition ==
  [][(/\ hist'.task \in {"finish_ws_message", "msg_queue_job"}
      /\ hist'.msg.msg_type = "status")
       => /\ \E i \in DOMAIN emitted' : emitted'[i] = hist'.msg.state
          /\ hist'.msg.state = "restarting"
             => /\ autorestart_attempt' = autorestart_attempt + 1
                /\ emitted' = <<"restarting", "autorestarting">>]_vars

\* C23: a status message with execution_state dead triggers kernel_dead and
\* starts the close of the open transport, and the close event of that
\* transport triggers no disconnected status and sets no reconnect timer.
C23_DeadTeardownSilent ==
  [][/\ (/\ hist'.task = "finish_ws_message"
          /\ hist'.msg.msg_type = "status"
          /\ hist'.msg.state = "dead")
         => /\ \E i \in DOMAIN emitted' : emitted'[i] = "dead"
            /\ is_connected(K) => sock'[ws].readyState = "CLOSING"
     /\ (/\ hist.dead # 0
          /\ sock[hist.dead].readyState = "CLOSING"
          /\ sock'[hist.dead].readyState = "CLOSED")
         => /\ \A i \in DOMAIN emitted' : emitted'[i] # "disconnected"
            /\ hist'.sched = -1]_vars

\* C24: newComm on a connected client registers the comm under its new id
\* (a resolved promise, no earlier comm of that id), sends exactly one
\* shell message, a comm_open whose content carries that id and the target
\* name, and returns in the same task, before any message is received.
C24_NewCommOpens ==
  [][(hist'.task = "new_comm" /\ is_connected(K))
       => \E id \in CommIds :
            /\ cm.nopen[id] = 0
            /\ cm'.nopen[id] = 1
            /\ cm'.comms[id] # 0
            /\ cm'.chain[cm'.comms[id]].state = "resolved"
            /\ cm'.chain[cm'.comms[id]].id = id
            /\ id \in cm'.local
            /\ ~threw'
            /\ wire' = Append(wire, [type |-> "comm_open", sock |-> ws,
                                    channel |-> "shell"])
            /\ Len(cm'.content) = Len(cm.content) + 1
            /\ \E target_name \in Targets :
                 cm'.content[Len(cm'.content)] =
                   [msg_id |-> Len(wire'), comm_id |-> id,
                    target_name |-> target_name]
            /\ hist'.nin = hist.nin]_vars

\* a comm opened for the second target while an execute request is open
C24_Witness ==
  /\ hist.task = "new_comm"
  /\ ~threw
  /\ Len(wire) >= 3
  /\ wire[Len(wire)].type = "comm_open"
  /\ cm.content # <<>>
  /\ cm.content[Len(cm.content)].target_name = "link"
  /\ cm.content[Len(cm.content)].msg_id = Len(wire)
  /\ inTable # {}

\* C25: once a comm was closed, by Comm.close() of the caller or by a
\* comm_close of the kernel, a comm_msg that arrives for its id finds no
\* entry for it in the registry.
C25_ClosedUnregistered ==
  [][(/\ hist'.task = "finish_ws_message"
      /\ hist'.msg.msg_type = "comm_msg"
      /\ hist'.msg.comm_id \in hist.localClosed \cup hist.closed)
       => cm.comms[hist'.msg.comm_id] = 0]_vars

\* C26: a request written on the shell channel puts exactly one entry into
\* the table of open requests, under the msg id the send returns, and an
\* entry leaves the table only in a task that handles the reply or the idle
\* status of its request or in a call of clear_callbacks_for_msg.
C26_SentRequestTracked ==
  [][/\ (/\ Len(wire') = Len(wire) + 1
          /\ wire'[Len(wire')].channel = "shell")
         => /\ Len(wire') \in inTable'
            /\ inTable \subseteq inTable'
            /\ inTable' \ inTable = {Len(wire')}
     /\ \A i \in inTable \ inTable' :
          \/ hist'.task = "clear_callbacks"
          \/ /\ hist'.msg.parent = i
             /\ \/ hist'.msg.channel = "shell"
                \/ hist'.msg.msg_type = "status" /\ hist'.msg.state = "idle"]_vars

\* C27: the messages are dispatched in the order the transport delivered
\* them, whenever their decodings complete: the job that ends for the n-th
\* message delivered makes the n-th call of _finish_ws_message.
C27_DispatchInDeliveryOrder ==
  [][(/\ hist'.task \in {"msg_queue_job", "msg_queue_read", "reader_load"}
      /\ Len(msg_queue'.jobs) = Len(msg_queue.jobs) - 1)
       => /\ hist'.msg = Head(msg_queue.jobs)
          /\ hist'.ndisp = hist.ndisp + 1
          /\ hist'.ndisp = hist.nin - Len(msg_queue.jobs) + 1]_vars

C29_AutorestartCount ==
  /\ autorestart_attempt = hist.nrestart
  /\ (/\ hist.task \in {"finish_ws_message", "msg_queue_job"}
      /\ hist.msg.msg_type = "status"
      /\ hist.msg.state = "restarting")
     => /\ emitted = <<"restarting", "autorestarting">>
        /\ hist.attempt = hist.nrestart

\* C30: after stop_channels was called on an open transport, this.ws
\* eventually stops holding that transport: it becomes null when the close
\* event is delivered (or holds the transport of a later start_channels),
\* whenever the 1-second timer fires.
C30_StoppedEventuallyNull ==
  (hist.stopped # 0) ~> (ws # hist.stopped)

C33_StaleEventsIgnored ==
  [][(/\ hist'.task \in {"ws_open", "ws_close", "ws_error"}
      /\ ~hist'.current
      /\ ws # 0)
       => /\ ws' = ws
          /\ sock'[ws].readyState = sock[ws].readyState
          /\ \A i \in DOMAIN emitted' :
               emitted'[i] \notin {"connected", "disconnected"}
          /\ hist'.sched = -1]_vars

\* C34: once the kernel was killed or reported dead, no transport is
\* created as long as neither start nor restart is called, whatever
\* reconnect timers were pending.
C34_NoTransportAfterDead ==
  [][hist.killed /\ hist'.task # "kernel_created" => nsock' = nsock]_vars

\* the reconnect timers that have not fired yet
PendingReconnects == { i \in 1 .. Len(timers) : timers[i].kind = "reconnect" }

\* C35: with reconnect and start_channels called by the client's own
\* reconnect timers only, at most one reconnect timer is pending at any
\* time and the attempt counter never exceeds reconnect_limit.
C35_OneTimerBoundedAttempts ==
  /\ Cardinality(PendingReconnects) <= 1
  /\ reconnect_attempt <= reconnect_limit

C35_Witness ==
  /\ Cardinality(PendingReconnects) = 1
  /\ reconnect_attempt = reconnect_limit - 1

\* C36: the reply callback of a request is invoked at most once: a shell
\* reply whose parent's reply callback was already invoked invokes nothing.
C36_ReplyAtMostOnce ==
  [][(/\ hist'.task = "finish_ws_message"
      /\ hist'.msg.channel = "shell"
      /\ hist'.msg.parent \in hist.replied)
     => ~hist'.invoked]_vars

\* C37: no entry of the open-request table has both shell_done and
\* iopub_done set, whatever callbacks it was registered with.
C37_NoFinishedEntry ==
  \A i \in inTable :
    ~(msg_callbacks[i].shell_done /\ msg_callbacks[i].iopub_done)

\* C38: serialize leaves its argument as it was: after the call the message
\* is the message that was passed, its buffers list included.
C38_SerializeLeavesArgument ==
  codec.step \in {"serialized", "deserialized"} => codec.out.msg = codec.msg

\* C39: newComm called while the kernel is not connected raises an error
\* and leaves the comm registry as it was, with no entry for the new id.
C39_FailedNewCommUnregistered ==
  [][(hist'.task = "new_comm" /\ ~is_connected(K))
       => /\ threw'
          /\ cm'.comms = cm.comms
          /\ cm'.nopen = cm.nopen]_vars

\* C40: a close event with wasClean true that stop_channels did not ask
\* for, in the first second or later, reports no disconnect, starts no
\* probe and sets no reconnect timer.
C40_CleanCloseSilent ==
  [][(/\ hist'.task = "ws_close"
      /\ hist'.wasClean
      /\ hist'.handler \in {"early", "late"})
     => /\ emitted' = <<>>
        /\ probes' = probes
        /\ ~hist'.probed
        /\ hist'.sched = -1
        /\ timers' = timers]_vars

\* the current transport, open for more than a second, was closed cleanly
\* by the server and its close handler ran
C40_Witness ==
  /\ hist.task = "ws_close"
  /\ hist.wasClean
  /\ hist.handler = "late"
  /\ hist.current
  /\ hist.neff = 1
  /\ ws # 0
  /\ sock[ws].readyState = "CLOSED"

====
